---- MODULE Spec2Model ----
(***************************************************************************)
(* occ::BRepPointOnFacesProjection                                         *)
(* (src/src/occtools/brep_point_on_faces_projection.cpp).                  *)
(*                                                                         *)
(* The object owns a vector of (GeomAPI_ProjectPointOnSurf*, TopoDS_Face)  *)
(* pairs, one heap-allocated projector per face of the prepared shape, and *)
(* a copy of the pair selected by the last compute().  The heap is part of *)
(* the state so that allocation, release and reads through the stored      *)
(* pointer can be followed.  The geometry kernel (face enumeration,        *)
(* BRep_Tool::Surface, GeomAPI_ProjectPointOnSurf, normalToFaceAtUV) is    *)
(* represented by a small catalogue of planar patches.                     *)
(***************************************************************************)
EXTENDS Integers, Sequences, FiniteSets

VARIABLES
    pc,            \* "alive", "destroyed", "aborted" (assert), "crashed"
    projectors,    \* _projectors : std::vector<ProjectorInfo_t>
    solProjector,  \* _solProjector : ProjectorInfo_t
    heap,          \* the Projector_t objects, by allocation id
    nextId,        \* id the next `new Projector_t` gets
    shape,         \* argument of the most recent prepare()
    last,          \* most recent mutating call, its point argument, and the
                   \* point of the compute() before it on the same pool
    ret            \* value returned by the most recent accessor call

vars == <<pc, projectors, solProjector, heap, nextId, shape, last, ret>>

----------------------------------------------------------------------------
(* Bounds *)

\* Largest number of faces TopExp_Explorer enumerates from one shape.
MaxFaces == 2

\* Number of Projector_t allocations followed over the object's life.
MaxAlloc == 6

----------------------------------------------------------------------------
(* Geometry kernel *)

\* std::numeric_limits<double>::max()
MaxDouble == 1000

Abs(x) == IF x < 0 THEN -x ELSE x

origin3d == <<0, 0, 0>>

\* TopoDS_Face() : the null face
NullFace == 0

\* Face handles.  1 and 2 are planar patches, 3 is a degenerate face.
Faces == {1, 2, 3}

\* Query points: 3 and 7 away from the two planes; 5 away from both; beside
\* the first patch.
Points == {<<1, 0, 3>>, <<1, 0, 5>>, <<2, 0, 1>>}

NullSurface == [null |-> TRUE, z |-> 0, xmax |-> 0]

\* BRep_Tool::Surface(iFace): the plane Z = z over 0 <= X <= xmax, or the
\* null handle for the degenerate face.
Surface(iFace) ==
    CASE iFace = 1 -> [null |-> FALSE, z |-> 0,  xmax |-> 1]
      [] iFace = 2 -> [null |-> FALSE, z |-> 10, xmax |-> 2]
      [] OTHER     -> NullSurface

\* occ::normalToFaceAtUV(face, u, v): face 2 is reversed.
normalToFaceAtUV(face, u, v) ==
    IF face = 2 THEN <<0, 0, -1>> ELSE <<0, 0, 1>>

\* What GeomAPI_ProjectPointOnSurf holds after projecting `point` on `surf`:
\* IsDone(), NbPoints(), LowerDistance(), NearestPoint(),
\* LowerDistanceParameters().  A null surface does not converge; a point
\* whose foot falls outside the patch converges with no candidate.
Project(surf, point) ==
    IF surf.null
    THEN [done |-> FALSE, nb |-> 0, dist |-> 0, near |-> origin3d, uv |-> <<0, 0>>]
    ELSE IF point[1] > surf.xmax
    THEN [done |-> TRUE, nb |-> 0, dist |-> 0, near |-> origin3d, uv |-> <<0, 0>>]
    ELSE [done |-> TRUE, nb |-> 1, dist |-> Abs(point[3] - surf.z),
          near |-> <<point[1], point[2], surf.z>>,
          uv   |-> <<point[1], point[2]>>]

\* A heap cell nothing was allocated in yet.
Unallocated == [st |-> "unalloc", surf |-> NullSurface, res |-> Project(NullSurface, origin3d)]

\* new Projector_t(point, surf)
NewProjector(point, surf) == [st |-> "live", surf |-> surf, res |-> Project(surf, point)]

\* (variant) keeps a converged solution instead of projecting again
PerformIncremental(p, point) ==
    IF p.res.done /\ p.res.nb > 0 THEN p ELSE [p EXCEPT !.res = Project(p.surf, point)]

\* Projector_t::Perform(point): the projection is run again from scratch.
Perform(p, point) == [p EXCEPT !.res = Project(p.surf, point)]

\* A heap cell whose projector was deleted; its bytes mean nothing any more.
Freed == [st |-> "freed", surf |-> NullSurface, res |-> Project(NullSurface, origin3d)]

\* delete p: a second delete of the same object corrupts the heap.
Delete(h, c) ==
    IF h[c].st = "live" THEN [h EXCEPT ![c] = Freed]
                        ELSE [h EXCEPT ![c].st = "corrupt"]

\* Shapes: what TopExp_Explorer(faces, TopAbs_FACE) enumerates, in order.
Shapes == UNION {[1..n -> Faces] : n \in 0..MaxFaces}

\* Orders in which n projectors can be visited.
Perms(n) == {f \in [1..n -> 1..n] : \A i, j \in 1..n : f[i] = f[j] => i = j}

----------------------------------------------------------------------------
(* projector_compare *)

\* (variant) the distance is read without looking at IsDone()/NbPoints()
projector_compare_unchecked(p1, p2) == p1.res.dist < p2.res.dist

\* (variant) <= instead of <
projector_compare_le(p1, p2) ==
    LET p1Dist == IF p1.res.done /\ p1.res.nb > 0 THEN p1.res.dist ELSE MaxDouble
        p2Dist == IF p2.res.done /\ p2.res.nb > 0 THEN p2.res.dist ELSE MaxDouble
    IN  p1Dist <= p2Dist

\* (variant) > instead of <
projector_compare_gt(p1, p2) ==
    LET p1Dist == IF p1.res.done /\ p1.res.nb > 0 THEN p1.res.dist ELSE MaxDouble
        p2Dist == IF p2.res.done /\ p2.res.nb > 0 THEN p2.res.dist ELSE MaxDouble
    IN  p1Dist > p2Dist

projector_compare(p1, p2) ==
    LET p1Dist == IF p1.res.done /\ p1.res.nb > 0 THEN p1.res.dist ELSE MaxDouble
        p2Dist == IF p2.res.done /\ p2.res.nb > 0 THEN p2.res.dist ELSE MaxDouble
    IN  p1Dist < p2Dist

\* std::min_element(_projectors.begin(), _projectors.end(), cmp) as an index;
\* Len(projs) + 1 stands for end().
RECURSIVE min_scan(_, _, _, _)
min_scan(projs, h, first, smallest) ==
    IF first > Len(projs) THEN smallest
    ELSE min_scan(projs, h, first + 1,
                  IF projector_compare(h[projs[first].first], h[projs[smallest].first])
                  THEN first ELSE smallest)

min_element(projs, h) ==
    IF Len(projs) = 0 THEN Len(projs) + 1 ELSE min_scan(projs, h, 2, 1)

\* std::for_each(_projectors.begin(), _projectors.end(), Perform(point)),
\* visiting the entries in the given order (the source visits them front to
\* back; the commented-out QtConcurrent::map would visit them in any order).
RECURSIVE for_each_Perform(_, _, _, _)
for_each_Perform(h, projs, order, point) ==
    IF order = <<>> THEN h
    ELSE LET c == projs[Head(order)].first
         IN  for_each_Perform([h EXCEPT ![c] = Perform(h[c], point)],
                              projs, Tail(order), point)

----------------------------------------------------------------------------
(* releaseMemory / prepare *)

RECURSIVE delete_all(_, _)
delete_all(h, projs) ==
    IF projs = <<>> THEN h
    ELSE delete_all(IF Head(projs).first # 0 THEN Delete(h, Head(projs).first) ELSE h,
                    Tail(projs))

\* (variant) the vector is not cleared
releaseMemory_no_clear(h, projs) ==
    [heap |-> delete_all(h, projs), projectors |-> projs]

\* (variant) the vector is cleared but the projectors are not deleted
releaseMemory_no_delete(h, projs) ==
    [heap |-> h, projectors |-> <<>>]

\* BRepPointOnFacesProjection::releaseMemory
releaseMemory(h, projs) ==
    [heap |-> delete_all(h, projs), projectors |-> <<>>]

\* The loop of prepare(): one new projector per enumerated face.
RECURSIVE prepare_loop(_, _, _, _)
prepare_loop(faces, h, projs, id) ==
    IF faces = <<>> THEN [heap |-> h, projectors |-> projs, nextId |-> id]
    ELSE LET iFace == Head(faces)
             iSurf == Surface(iFace)
         IN  prepare_loop(Tail(faces),
                          [h EXCEPT ![id] = NewProjector(origin3d, iSurf)],
                          Append(projs, [first |-> id, second |-> iFace]),
                          id + 1)

\* BRepPointOnFacesProjection::prepare
prepare(faces, h, projs, id) ==
    LET r == releaseMemory(h, projs)
    IN  prepare_loop(faces, r.heap, r.projectors, id)

----------------------------------------------------------------------------
(* Result accessors *)

\* The stored pointer is non-null and the projector it addresses was deleted:
\* reading through it is undefined behaviour.
Dangling == solProjector.first # 0 /\ heap[solProjector.first].st # "live"

\* (variant) NbPoints() is not looked at
isDone_no_count ==
    LET projector == solProjector.first
    IN  IF projector # 0 THEN heap[projector].res.done ELSE FALSE

\* BRepPointOnFacesProjection::isDone
isDone ==
    LET projector == solProjector.first
    IN  IF projector # 0
        THEN heap[projector].res.done /\ heap[projector].res.nb > 0
        ELSE FALSE

\* What a call of isDone() can return: its value, or anything when the read
\* goes through a dangling pointer.
isDoneOutcomes == IF Dangling THEN BOOLEAN ELSE {isDone}

emptyFace == NullFace

\* (variant) the stored face is returned without asking isDone()
solutionFace_stored(done) == solProjector.second

\* BRepPointOnFacesProjection::solutionFace, `done` being what isDone() gave
solutionFace(done) == IF done THEN solProjector.second ELSE emptyFace

\* BRepPointOnFacesProjection::solutionPoint
solutionPoint(done) ==
    IF done THEN heap[solProjector.first].res.near ELSE origin3d

\* BRepPointOnFacesProjection::solutionUV
solutionUV(done) ==
    IF done THEN heap[solProjector.first].res.uv ELSE <<0, 0>>

\* BRepPointOnFacesProjection::solutionNormal
solutionNormal(done) ==
    IF done
    THEN LET uv == heap[solProjector.first].res.uv
         IN  normalToFaceAtUV(solProjector.second, uv[1], uv[2])
    ELSE <<0, 0, 1>>

----------------------------------------------------------------------------
(* The state machine *)

NoRet == [fn |-> "none", val |-> 0]

EmptyHeap == [c \in 1..MaxAlloc |-> Unallocated]

\* BRepPointOnFacesProjection() and BRepPointOnFacesProjection(faces)
Init ==
    /\ pc = "alive"
    /\ solProjector = [first |-> 0, second |-> NullFace]
    /\ \/ /\ projectors = <<>>
          /\ heap = EmptyHeap
          /\ nextId = 1
          /\ shape = <<>>
       \/ \E faces \in Shapes :
            LET r == prepare(faces, EmptyHeap, <<>>, 1)
            IN  /\ projectors = r.projectors
                /\ heap = r.heap
                /\ nextId = r.nextId
                /\ shape = faces
    /\ last = [op |-> "ctor", point |-> origin3d, prev |-> origin3d]
    /\ ret = NoRet

\* prepare(faces)
Prepare(faces) ==
    /\ pc = "alive"
    /\ nextId + Len(faces) - 1 <= MaxAlloc
    /\ LET r == prepare(faces, heap, projectors, nextId)
       IN  /\ projectors' = r.projectors
           /\ heap' = r.heap
           /\ nextId' = r.nextId
    /\ shape' = faces
    /\ last' = [op |-> "prepare", point |-> origin3d, prev |-> origin3d]
    /\ ret' = NoRet
    /\ UNCHANGED <<pc, solProjector>>

\* What reading *end() of the emptied vector can leave in _solProjector:
\* zeroes, or the pointer of an entry that was stored there before.
Garbage ==
    {[first |-> 0, second |-> NullFace]}
    \cup {[first |-> c, second |-> NullFace] :
            c \in {d \in 1..MaxAlloc : heap[d].st = "freed"}}

\* compute(point) on a pool that holds at least one projector
ComputeSome(point) ==
    /\ pc = "alive"
    /\ Len(projectors) > 0
    /\ \E order \in Perms(Len(projectors)) :
         LET h == for_each_Perform(heap, projectors, order, point)
             iResult == min_element(projectors, h)
         IN  /\ heap' = h
             /\ iResult # Len(projectors) + 1
             /\ solProjector' = projectors[iResult]
    /\ last' = [op |-> "compute", point |-> point,
                prev |-> IF last.op = "compute" THEN last.point ELSE origin3d]
    /\ ret' = NoRet
    /\ UNCHANGED <<pc, projectors, nextId, shape>>

\* compute(point) on an empty pool: min_element returns end().  With
\* assertions on, the assert fails; with NDEBUG, *end() is read.
ComputeNone(point) ==
    /\ pc = "alive"
    /\ Len(projectors) = 0
    /\ min_element(projectors, heap) = Len(projectors) + 1
    /\ \/ pc' = "aborted" /\ UNCHANGED solProjector
       \/ pc' = "crashed" /\ UNCHANGED solProjector
       \/ pc' = pc /\ solProjector' \in Garbage
    /\ last' = [op |-> "compute", point |-> point,
                prev |-> IF last.op = "compute" THEN last.point ELSE origin3d]
    /\ ret' = NoRet
    /\ UNCHANGED <<projectors, heap, nextId, shape>>

\* ~BRepPointOnFacesProjection
Destroy ==
    /\ pc = "alive"
    /\ LET r == releaseMemory(heap, projectors)
       IN  /\ heap' = r.heap
           /\ projectors' = r.projectors
    /\ pc' = "destroyed"
    /\ last' = [op |-> "dtor", point |-> origin3d, prev |-> origin3d]
    /\ ret' = NoRet
    /\ UNCHANGED <<solProjector, nextId, shape>>

Frame == UNCHANGED <<pc, projectors, solProjector, heap, nextId, shape, last>>

CallIsDone ==
    /\ pc = "alive"
    /\ \E done \in isDoneOutcomes : ret' = [fn |-> "isDone", val |-> done]
    /\ Frame

CallSolutionFace ==
    /\ pc = "alive"
    /\ \E done \in isDoneOutcomes :
         ret' = [fn |-> "solutionFace", val |-> solutionFace(done)]
    /\ Frame

CallSolutionPoint ==
    /\ pc = "alive"
    /\ \E done \in isDoneOutcomes :
         ret' = [fn |-> "solutionPoint", val |-> solutionPoint(done)]
    /\ Frame

CallSolutionUV ==
    /\ pc = "alive"
    /\ \E done \in isDoneOutcomes :
         ret' = [fn |-> "solutionUV", val |-> solutionUV(done)]
    /\ Frame

CallSolutionNormal ==
    /\ pc = "alive"
    /\ \E done \in isDoneOutcomes :
         ret' = [fn |-> "solutionNormal", val |-> solutionNormal(done)]
    /\ Frame

\* An accessor reads through the dangling pointer and the process faults.
DanglingReadFault ==
    /\ pc = "alive"
    /\ Dangling
    /\ pc' = "crashed"
    /\ UNCHANGED <<projectors, solProjector, heap, nextId, shape, last, ret>>

Next ==
    \/ \E faces \in Shapes : Prepare(faces)
    \/ \E point \in Points : ComputeSome(point)
    \/ \E point \in Points : ComputeNone(point)
    \/ Destroy
    \/ CallIsDone
    \/ CallSolutionFace
    \/ CallSolutionPoint
    \/ CallSolutionUV
    \/ CallSolutionNormal
    \/ DanglingReadFault

Spec == Init /\ [][Next]_vars

----------------------------------------------------------------------------
(* Reference computations, made per face from the kernel alone *)

Converged(r) == r.done /\ r.nb > 0

\* The projection of `point` on the i-th face of `faces`, computed afresh.
RefRes(faces, i, point) == Project(Surface(faces[i]), point)

\* Distance of the i-th face, infinite when its projection gave nothing.
RefDist(faces, i, point) ==
    IF Converged(RefRes(faces, i, point)) THEN RefRes(faces, i, point).dist
    ELSE MaxDouble

\* First index, in enumeration order, of a face at minimal distance.
RefFirstMin(faces, point) ==
    CHOOSE k \in 1..Len(faces) :
        /\ \A i \in 1..Len(faces) : RefDist(faces, k, point) <= RefDist(faces, i, point)
        /\ \A i \in 1..(k - 1) : RefDist(faces, i, point) > RefDist(faces, k, point)

\* What the accessor `fn` must return for a soup `faces` queried at `point`.
RefAnswer(fn, faces, point) ==
    LET k == RefFirstMin(faces, point)
        r == RefRes(faces, k, point)
        ok == Converged(r)
    IN  CASE fn = "isDone"         -> ok
          [] fn = "solutionFace"   -> IF ok THEN faces[k] ELSE NullFace
          [] fn = "solutionPoint"  -> IF ok THEN r.near ELSE <<0, 0, 0>>
          [] fn = "solutionUV"     -> IF ok THEN r.uv ELSE <<0, 0>>
          [] fn = "solutionNormal" ->
                IF ok THEN normalToFaceAtUV(faces[k], r.uv[1], r.uv[2]) ELSE <<0, 0, 1>>

\* The faces of the pool's entries, in order.
PoolFaces == [i \in 1..Len(projectors) |-> projectors[i].second]

\* compute(last.point) has returned on a non-empty pool and nothing but
\* accessors was called since.
AfterCompute == pc = "alive" /\ last.op = "compute" /\ Len(projectors) > 0

LiveSet == {c \in 1..MaxAlloc : heap[c].st = "live"}
FreedSet == {c \in 1..MaxAlloc : heap[c].st = "freed"}
PoolSet == {projectors[i].first : i \in 1..Len(projectors)}

----------------------------------------------------------------------------
(* Claims *)

\* C1: after compute(point) on a non-empty pool, isDone() is true iff at
\* least one entry's projection of that point converged with a candidate.
C1_DoneIffSomeConverged ==
    AfterCompute =>
        (isDone <=> \E i \in 1..Len(projectors) :
                        Converged(RefRes(PoolFaces, i, last.point)))

\* A compute where one entry converged and another did not.
C1_Witness ==
    /\ AfterCompute
    /\ isDone
    /\ \E i \in 1..Len(projectors) : ~Converged(RefRes(PoolFaces, i, last.point))

\* C2: when isDone() holds after compute(point), the selected entry's
\* distance is <= the distance of every entry that converged for the point,
\* and solutionFace()/solutionPoint() report that entry.
C2_GlobalMinimum ==
    (AfterCompute /\ isDone) =>
        /\ \A i \in 1..Len(projectors) :
              Converged(RefRes(PoolFaces, i, last.point)) =>
                  heap[solProjector.first].res.dist <= RefRes(PoolFaces, i, last.point).dist
        /\ \E i \in 1..Len(projectors) :
              /\ solProjector = projectors[i]
              /\ solutionFace(isDone) = PoolFaces[i]
              /\ solutionPoint(isDone) = RefRes(PoolFaces, i, last.point).near
              /\ heap[solProjector.first].res.dist = RefRes(PoolFaces, i, last.point).dist

\* Two faces at distances 7 and 3, in that order: the one at 3 is selected.
C2_Witness ==
    /\ AfterCompute
    /\ isDone
    /\ Len(projectors) = 2
    /\ RefDist(PoolFaces, 1, last.point) = 7
    /\ RefDist(PoolFaces, 2, last.point) = 3
    /\ solProjector = projectors[2]
    /\ solutionPoint(isDone) = <<1, 0, 0>>

\* C3: compute(point) on an empty pool completes without failing, and then
\* isDone() is false and the accessors return the sentinels.
C3_EmptyPoolCompute ==
    (last.op = "compute" /\ Len(projectors) = 0) =>
        /\ pc = "alive"
        /\ isDoneOutcomes = {FALSE}
        /\ solutionFace(FALSE) = NullFace
        /\ solutionPoint(FALSE) = <<0, 0, 0>>
        /\ solutionUV(FALSE) = <<0, 0>>
        /\ solutionNormal(FALSE) = <<0, 0, 1>>

\* C4: after a prepare, the stored result never refers to a projector that
\* prepare released.
C4_ResultInvalidatedByPrepare ==
    (pc = "alive" /\ last.op = "prepare") => ~Dangling

\* C5: the pool holds exactly one fresh entry per face of the most recently
\* prepared shape, in enumeration order, and none of an earlier shape; a
\* compute on it selects one of these entries.
C5_PoolIsLatestShape ==
    (pc # "destroyed") =>
        /\ Len(projectors) = Len(shape)
        /\ \A i \in 1..Len(projectors) :
              /\ projectors[i].second = shape[i]
              /\ projectors[i].first = nextId - Len(shape) + i - 1
              /\ heap[projectors[i].first].st = "live"
              /\ heap[projectors[i].first].surf = Surface(shape[i])
              /\ last.op = "prepare" =>
                    heap[projectors[i].first].res = Project(Surface(shape[i]), origin3d)
        /\ AfterCompute =>
              \E i \in 1..Len(shape) :
                  solProjector = [first |-> nextId - Len(shape) + i - 1, second |-> shape[i]]

\* A second, non-empty prepare after a compute on an earlier pool.
C5_Witness ==
    /\ pc = "alive"
    /\ last.op = "prepare"
    /\ solProjector.first # 0
    /\ Len(projectors) > 0
    /\ solProjector.second \notin {projectors[i].second : i \in 1..Len(projectors)}

\* C6: compute stores the first entry, in enumeration order, among those at
\* minimal distance, entries without a solution counting as infinitely far.
C6_TieBreakFirst ==
    AfterCompute => solProjector = projectors[RefFirstMin(PoolFaces, last.point)]

\* Two entries at the same finite distance: the first is stored.
C6_Witness ==
    /\ AfterCompute
    /\ Len(projectors) = 2
    /\ RefDist(PoolFaces, 1, last.point) = RefDist(PoolFaces, 2, last.point)
    /\ RefDist(PoolFaces, 1, last.point) < MaxDouble
    /\ PoolFaces[1] # PoolFaces[2]
    /\ solProjector = projectors[1]

\* C7: when isDone() is false before any compute or after a compute on a
\* non-empty pool, every accessor returns its sentinel.
C7_SentinelsWhenNotDone ==
    (/\ pc = "alive"
     /\ ret.fn # "none"
     /\ solProjector.first = 0 \/ AfterCompute
     /\ ~isDone)
    => CASE ret.fn = "isDone"         -> ret.val = FALSE
         [] ret.fn = "solutionFace"   -> ret.val = NullFace
         [] ret.fn = "solutionPoint"  -> ret.val = <<0, 0, 0>>
         [] ret.fn = "solutionUV"     -> ret.val = <<0, 0>>
         [] ret.fn = "solutionNormal" -> ret.val = <<0, 0, 1>>

\* Every entry failed: an entry is stored, solutionFace() still gives no face.
C7_Witness ==
    /\ AfterCompute
    /\ ~isDone
    /\ solProjector.first # 0
    /\ solProjector.second # NullFace
    /\ ret.fn = "solutionFace"
    /\ ret.val = NullFace

\* C8: after compute(p) the selected face, point and UV are those of the
\* reference computation on (pool faces, p) alone, whatever was computed
\* before and in whatever order the entries were projected.
C8_HistoryIndependent ==
    AfterCompute =>
        /\ solutionFace(isDone)  = RefAnswer("solutionFace", PoolFaces, last.point)
        /\ solutionPoint(isDone) = RefAnswer("solutionPoint", PoolFaces, last.point)
        /\ solutionUV(isDone)    = RefAnswer("solutionUV", PoolFaces, last.point)

\* A compute that follows a compute of another point which selected another
\* face of the same pool.
C8_Witness ==
    /\ AfterCompute
    /\ isDone
    /\ last.prev # origin3d
    /\ last.prev # last.point
    /\ RefAnswer("isDone", PoolFaces, last.prev)
    /\ RefAnswer("solutionFace", PoolFaces, last.prev) # solutionFace(isDone)

\* C9: an accessor call after a compute leaves the pool, the projectors and
\* the stored result unchanged and returns the value that compute determined.
C9_AccessorsPure ==
    [][(/\ AfterCompute
        /\ ret'.fn # "none"
        /\ ret'.fn # ret.fn \/ ret'.val # ret.val)
       => /\ UNCHANGED <<projectors, heap, solProjector>>
          /\ ret'.val = RefAnswer(ret'.fn, PoolFaces, last.point)]_vars

\* solutionNormal() returned the normal of the reversed face.
C9_Witness ==
    /\ AfterCompute
    /\ ret.fn = "solutionNormal"
    /\ ret.val = <<0, 0, -1>>

\* The live projectors are exactly those of the pool's entries, none was
\* deleted twice, and after the destructor none is live.
OwnershipInv ==
    /\ LiveSet = PoolSet
    /\ Cardinality(PoolSet) = Len(projectors)
    /\ \A c \in 1..MaxAlloc :
          /\ heap[c].st # "corrupt"
          /\ heap[c].st = "unalloc" <=> c >= nextId
    /\ pc = "destroyed" => LiveSet = {}

\* C10: allocated-and-not-released projectors are exactly the pool's; each
\* is released once, by the next prepare or the destructor; compute
\* allocates and releases none.
C10_Ownership ==
    /\ []OwnershipInv
    /\ [][last'.op = "compute" =>
            \A c \in 1..MaxAlloc : heap'[c].st = heap[c].st]_vars

\* Destruction after more projectors were allocated than one shape has faces.
C10_Witness ==
    /\ pc = "destroyed"
    /\ Cardinality(FreedSet) >= 3
    /\ FreedSet = 1..(nextId - 1)

====
